---- MODULE Spec2Model ----
(***************************************************************************)
(* Open3D: core::Solve (cpp/open3d/core/algebra/Solver.cpp) and the        *)
(* transform builders ComputeTransformationFromRt and                      *)
(* ComputeTransformationFromPose                                           *)
(* (cpp/open3d/t/pipelines/SolveTransformation.cpp).                       *)
(*                                                                         *)
(* Tensors are views (buffer, offset, shape, strides, dtype, device) over  *)
(* a heap of flat buffers.  Element values are integers: the arithmetic of *)
(* the solver is exact, and a rotation angle is held as a number of        *)
(* quarter turns (the value q stands for q*pi/2), where sin and cos are    *)
(* exact.                                                                  *)
(***************************************************************************)
EXTENDS Integers, Sequences, FiniteSets, TLC

\* Bounds of the model.
MaxN == 2        \* largest n of an n x n system
MaxM == 2        \* largest number of right-hand sides
MaxVal == 3      \* largest matrix entry / translation component
MaxAngle == 3    \* largest angle, in quarter turns
MaxStride == 2   \* largest element stride of a 1-D input view

VARIABLES
    build_cuda,    \* BUILD_CUDA_MODULE of the build
    heap,          \* sequence of flat buffers; a buffer id is its index
    pc,            \* position of the running call
    err,           \* the fatal error raised, or "none"
    A, B,          \* Solve's arguments
    A_copy, B_copy, ipiv,   \* Solve's locals
    backend,       \* Solve's resolved backend routine
    R, t,          \* ComputeTransformationFromRt's arguments
    X,             \* ComputeTransformationFromPose's argument
    ret,           \* the returned tensor, or NoTensor
    backendCalls   \* number of invocations of the backend routine

vars == <<build_cuda, heap, pc, err, A, B, A_copy, B_copy, ipiv, backend,
          R, t, X, ret, backendCalls>>

(***************************************************************************)
(* Devices and dtypes                                                      *)
(***************************************************************************)
CPU0 == [type |-> "CPU", index |-> 0]
CUDA0 == [type |-> "CUDA", index |-> 0]
Devices == {CPU0, CUDA0}
Dtypes == {"Float32", "Float64", "Int32"}

(***************************************************************************)
(* Tensor views                                                            *)
(***************************************************************************)
NoTensor == [buf |-> 0, offset |-> 0, shape |-> <<>>, strides |-> <<>>,
             dtype |-> "Undefined", device |-> CPU0]

RECURSIVE Prod(_)
Prod(s) == IF s = <<>> THEN 1 ELSE Head(s) * Prod(Tail(s))

NumElements(shape) == Prod(shape)

\* Row-major (contiguous) strides of a shape.
DefaultStrides(shape) ==
    [k \in 1..Len(shape) |-> Prod(SubSeq(shape, k + 1, Len(shape)))]

MkTensor(buf, offset, shape, strides, dtype, device) ==
    [buf |-> buf, offset |-> offset, shape |-> shape, strides |-> strides,
     dtype |-> dtype, device |-> device]

RECURSIVE StrideSum(_, _, _)
StrideSum(T, p, k) ==
    IF k = 0 THEN 0
    ELSE ((p \div DefaultStrides(T.shape)[k]) % T.shape[k]) * T.strides[k]
         + StrideSum(T, p, k - 1)

\* Buffer position (0-based) of the p-th (0-based, row-major) logical element.
ElemOffset(T, p) == T.offset + StrideSum(T, p, Len(T.shape))

\* The logical elements of a view, in row-major order.
Flat(h, T) ==
    [p \in 1..NumElements(T.shape) |-> h[T.buf][ElemOffset(T, p - 1) + 1]]

\* Logical element (i, j), 1-based, of a 2-D view; element i of a 1-D view.
At2(h, T, i, j) ==
    h[T.buf][T.offset + (i - 1) * T.strides[1] + (j - 1) * T.strides[2] + 1]
At1(h, T, i) == h[T.buf][T.offset + (i - 1) * T.strides[1] + 1]

\* Tensor::T(): a view with the two axes swapped; a tensor of rank < 2 is
\* returned as is.
Transpose(T) ==
    IF Len(T.shape) = 2
    THEN [T EXCEPT !.shape = <<T.shape[2], T.shape[1]>>,
                   !.strides = <<T.strides[2], T.strides[1]>>]
    ELSE T

\* Tensor::Copy(device): a fresh contiguous buffer with the logical elements.
CopyTensor(h, T, device) ==
    [heap |-> Append(h, Flat(h, T)),
     tensor |-> MkTensor(Len(h) + 1, 0, T.shape, DefaultStrides(T.shape),
                         T.dtype, device)]

\* Tensor::Zeros(shape, dtype, device).
Zeros(h, shape, dtype, device) ==
    [heap |-> Append(h, [p \in 1..NumElements(shape) |-> 0]),
     tensor |-> MkTensor(Len(h) + 1, 0, shape, DefaultStrides(shape),
                         dtype, device)]

\* GetItem({Slice(r0, r1, 1), Slice(c0, c1, 1)}) of a 2-D view.
Slice2(T, r0, r1, c0, c1) ==
    [T EXCEPT !.offset = T.offset + r0 * T.strides[1] + c0 * T.strides[2],
              !.shape = <<r1 - r0, c1 - c0>>]

\* GetItem({Slice(i0, i1, 1)}) of a 1-D view.
Slice1(T, i0, i1) ==
    [T EXCEPT !.offset = T.offset + i0 * T.strides[1], !.shape = <<i1 - i0>>]

\* Reshape({n, 1}) of a 1-D view of n elements.
ReshapeColumn(T) ==
    [T EXCEPT !.shape = <<T.shape[1], 1>>, !.strides = <<T.strides[1], 1>>]

\* dst.AsRvalue() = src for views of equal shape: elementwise assignment of
\* the first p logical elements.
RECURSIVE AssignElems(_, _, _, _, _)
AssignElems(buffer, h, dst, src, p) ==
    IF p = 0 THEN buffer
    ELSE AssignElems(
             [buffer EXCEPT ![ElemOffset(dst, p - 1) + 1] =
                                h[src.buf][ElemOffset(src, p - 1) + 1]],
             h, dst, src, p - 1)
AssignView(h, dst, src) ==
    [h EXCEPT ![dst.buf] =
        AssignElems(@, h, dst, src, NumElements(dst.shape))]

\* Do two views use the same buffer?
SharesStorage(T1, T2) == T1.buf = T2.buf

(***************************************************************************)
(* The numeric backend (detail::SolverCPUBackend / SolverCUDABackend):     *)
(* gesv on column-major buffers, exact arithmetic.                         *)
(***************************************************************************)
RECURSIVE Det(_, _)
RECURSIVE DetSum(_, _, _)
Minor(M, n, c) ==
    [i \in 1..(n - 1) |-> [j \in 1..(n - 1) |->
        M[i + 1][IF j < c THEN j ELSE j + 1]]]
DetSum(M, n, c) ==
    IF c = 0 THEN 0
    ELSE (IF c % 2 = 1 THEN 1 ELSE -1) * M[1][c] * Det(Minor(M, n, c), n - 1)
         + DetSum(M, n, c - 1)
Det(M, n) == IF n = 0 THEN 1 ELSE IF n = 1 THEN M[1][1] ELSE DetSum(M, n, n)

\* The n x n matrix a column-major buffer holds, and one of its n x m columns.
ColMajorMatrix(buffer, n) ==
    [i \in 1..n |-> [j \in 1..n |-> buffer[(j - 1) * n + i]]]
ColMajorColumn(buffer, n, k) == [i \in 1..n |-> buffer[(k - 1) * n + i]]

\* M with column c replaced by the vector v (Cramer's rule).
ReplaceColumn(M, n, c, v) ==
    [i \in 1..n |-> [j \in 1..n |-> IF j = c THEN v[i] ELSE M[i][j]]]

\* The routine's contract (dtype, A-buffer, B-buffer, pivot-buffer, n, m):
\* the solution of A X = B is left in the B-buffer, column by column; the
\* A-buffer is overwritten by the factors (here: every entry is changed);
\* the pivot buffer receives the row interchanges.  A singular A is reported
\* as a fatal numeric error.
Gesv(dtype, A_data, B_data, ipiv_data, n, m) ==
    LET M == ColMajorMatrix(A_data, n)
        D == Det(M, n)
    IN IF D = 0
       THEN [singular |-> TRUE, A_data |-> A_data, B_data |-> B_data,
             ipiv_data |-> ipiv_data]
       ELSE [singular |-> FALSE,
             A_data |-> [q \in DOMAIN A_data |-> -A_data[q] - 1],
             B_data |-> [q \in DOMAIN B_data |->
                 LET k == ((q - 1) \div n) + 1
                     i == ((q - 1) % n) + 1
                 IN Det(ReplaceColumn(M, n, i, ColMajorColumn(B_data, n, k)), n)
                    \div D],
             ipiv_data |-> [q \in DOMAIN ipiv_data |-> q]]

(***************************************************************************)
(* core::Solve                                                             *)
(***************************************************************************)
\* map_device_type_to_gesv: device type -> routine.
RegistryNoHost(cuda) ==
    IF cuda THEN [ty \in {"CUDA"} |-> "SolverCUDABackend"]
    ELSE [ty \in {} |-> "SolverCPUBackend"]
Registry(cuda) ==
    IF cuda
    THEN [ty \in {"CUDA", "CPU"} |->
             IF ty = "CUDA" THEN "SolverCUDABackend" ELSE "SolverCPUBackend"]
    ELSE [ty \in {"CPU"} |-> "SolverCPUBackend"]

\* The checks of Solve in their order; the first one violated raises.
SolveErrorBadDtypeTest(a, b) ==
    IF a.device # b.device THEN "DeviceMismatch"
    ELSE IF a.dtype # b.dtype THEN "DtypeMismatch"
    ELSE IF a.dtype # "Float32" \/ a.dtype # "Float64" THEN "UnsupportedDtype"
    ELSE "none"
SolveError(a, b) ==
    IF a.device # b.device THEN "DeviceMismatch"
    ELSE IF a.dtype # b.dtype THEN "DtypeMismatch"
    ELSE IF a.dtype # "Float32" /\ a.dtype # "Float64" THEN "UnsupportedDtype"
    ELSE IF Len(a.shape) # 2 THEN "ShapeError"
    ELSE IF a.shape[1] # a.shape[2] THEN "ShapeError"
    ELSE IF Len(b.shape) # 1 /\ Len(b.shape) # 2 THEN "ShapeError"
    ELSE IF a.shape[2] # b.shape[1] THEN "DimensionMismatch"
    ELSE "none"

\* int n = A_shape[0], m = B_shape.size() == 2 ? B_shape[1] : 1;
SolveN(a) == a.shape[1]
SolveM(b) == IF Len(b.shape) = 2 THEN b.shape[2] ELSE 1

\* Tensor A_copy = A.T().Copy(A.GetDevice());
MakeACopyNoTranspose(h, a) == CopyTensor(h, a, a.device)
MakeACopy(h, a) == CopyTensor(h, Transpose(a), a.device)

\* Tensor B_copy = B.T().Copy(A.GetDevice());
MakeBCopyNoCopy(h, a, b) == [heap |-> h, tensor |-> Transpose(b)]
MakeBCopy(h, a, b) == CopyTensor(h, Transpose(b), a.device)

\* return B_copy.T();
SolveResultNoTranspose(bc) == bc
SolveResult(bc) == Transpose(bc)

\* Lines 35-73: the precondition checks.
SolveValidate ==
    /\ pc = "solve"
    /\ LET e == SolveError(A, B)
       IN /\ err' = e
          /\ pc' = IF e = "none" THEN "solve_copy" ELSE "failed"
    /\ UNCHANGED <<build_cuda, heap, A, B, A_copy, B_copy, ipiv, backend,
                   R, t, X, ret, backendCalls>>

\* Lines 75-88: the transposed copies and the pivot buffer on the host.
SolveCopy ==
    /\ pc = "solve_copy"
    /\ LET ac == MakeACopy(heap, A)
           bc == MakeBCopy(ac.heap, A, B)
           pv == Zeros(bc.heap, <<SolveN(A)>>, "Int32", CPU0)
       IN /\ A_copy' = ac.tensor
          /\ B_copy' = bc.tensor
          /\ ipiv' = pv.tensor
          /\ heap' = pv.heap
    /\ pc' = "solve_lookup"
    /\ UNCHANGED <<build_cuda, err, A, B, backend, R, t, X, ret,
                   backendCalls>>

\* Lines 90-103: the registry lookup.
SolveLookup ==
    /\ pc = "solve_lookup"
    /\ LET reg == Registry(build_cuda)
       IN IF A.device.type \in DOMAIN reg
          THEN /\ backend' = reg[A.device.type]
               /\ pc' = "solve_invoke"
               /\ err' = err
          ELSE /\ backend' = backend
               /\ pc' = "failed"
               /\ err' = "UnimplementedBackend"
    /\ UNCHANGED <<build_cuda, heap, A, B, A_copy, B_copy, ipiv, R, t, X,
                   ret, backendCalls>>

\* Line 105: the backend call on the raw buffers of the copies.
SolveInvoke ==
    /\ pc = "solve_invoke"
    /\ LET out == Gesv(A.dtype, heap[A_copy.buf], heap[B_copy.buf],
                       heap[ipiv.buf], SolveN(A), SolveM(B))
       IN /\ heap' = [q \in DOMAIN heap |->
                         IF q = B_copy.buf THEN out.B_data
                         ELSE IF q = A_copy.buf THEN out.A_data
                         ELSE IF q = ipiv.buf THEN out.ipiv_data
                         ELSE heap[q]]
          /\ pc' = IF out.singular THEN "failed" ELSE "solve_return"
          /\ err' = IF out.singular THEN "BackendNumericError" ELSE err
    /\ backendCalls' = backendCalls + 1
    /\ UNCHANGED <<build_cuda, A, B, A_copy, B_copy, ipiv, backend, R, t, X,
                   ret>>

\* Line 108: the result is the B copy, transposed back.
SolveReturn ==
    /\ pc = "solve_return"
    /\ ret' = SolveResult(B_copy)
    /\ pc' = "done"
    /\ UNCHANGED <<build_cuda, heap, err, A, B, A_copy, B_copy, ipiv,
                   backend, R, t, X, backendCalls>>

(***************************************************************************)
(* Callers of Solve                                                        *)
(***************************************************************************)
\* Diag(d) plus one unit entry off the diagonal at (oi, oj) (oi = oj: none).
ElemMatrix(n, d, oi, oj) ==
    [i \in 1..n |-> [j \in 1..n |->
        IF i = j THEN d[i] ELSE IF i = oi /\ j = oj THEN 1 ELSE 0]]

\* Vectors over vals of length n whose entries from the second on agree.
Vectors(n, vals) ==
    {v \in [1..n -> vals] : \A k \in 2..n : v[k] = v[IF n >= 2 THEN 2 ELSE 1]}

\* Row-major buffer of an r x c matrix given as rows.
RowMajor(M, r, c) ==
    [p \in 1..(r * c) |-> M[((p - 1) \div c) + 1][((p - 1) % c) + 1]]

RECURSIVE DotSum(_, _, _, _)
DotSum(M, col, i, k) ==
    IF k = 0 THEN 0 ELSE M[i][k] * col[k] + DotSum(M, col, i, k - 1)

\* The product M * Xs of an n x n matrix and n x m columns, as rows.
MatMul(M, Xs, n, m) ==
    [i \in 1..n |-> [j \in 1..m |-> DotSum(M, [k \in 1..n |-> Xs[k][j]], i, n)]]

\* A call Solve(A, B) on contiguous row-major caller buffers.
SolveCall(abuf, ashape, adtype, adevice, bbuf, bshape, bdtype, bdevice) ==
    [heap |-> <<abuf, bbuf>>,
     A |-> MkTensor(1, 0, ashape, DefaultStrides(ashape), adtype, adevice),
     B |-> MkTensor(2, 0, bshape, DefaultStrides(bshape), bdtype, bdevice)]

\* A well-formed system A X = B with an integral solution: A is nonsingular
\* (a triangular matrix with a nonzero diagonal) and column j of X is j * x;
\* B is n x m, or a vector of length n.
WellFormedSolveCall(n, d, o, x, bshape, dtype, device) ==
    LET m == NumElements(bshape) \div n
        a == ElemMatrix(n, d, o[1], o[2])
        b == MatMul(a, [k \in 1..n |-> [j \in 1..m |-> j * x[k]]], n, m)
    IN SolveCall(RowMajor(a, n, n), <<n, n>>, dtype, device,
                 RowMajor(b, n, m), bshape, dtype, device)

\* A call with arbitrary metadata over zero-filled buffers: the checks of
\* Solve read only device, dtype and shape.
SolveAShapes ==
    {<<>>} \cup {<<n>> : n \in 1..MaxN}
    \cup ((1..(MaxN + 1)) \X (1..(MaxN + 1)))
    \cup {<<n, n, n>> : n \in 1..MaxN}
SolveBShapes ==
    {<<>>} \cup {<<n>> : n \in 1..(MaxN + 1)}
    \cup ((1..(MaxN + 1)) \X (1..MaxM))
    \cup {<<n, 1, 1>> : n \in 1..MaxN}
AnyMetadataSolveCall(ashape, adtype, adevice, bshape, bdtype, bdevice) ==
    SolveCall([p \in 1..NumElements(ashape) |-> 0], ashape, adtype, adevice,
              [p \in 1..NumElements(bshape) |-> 0], bshape, bdtype, bdevice)

InitSolveCall(c) ==
    /\ build_cuda \in BOOLEAN
    /\ heap = c.heap /\ A = c.A /\ B = c.B
    /\ pc = "solve"
    /\ err = "none"
    /\ A_copy = NoTensor /\ B_copy = NoTensor /\ ipiv = NoTensor
    /\ backend = "none"
    /\ R = NoTensor /\ t = NoTensor /\ X = NoTensor
    /\ ret = NoTensor
    /\ backendCalls = 0

InitSolve ==
    \/ \E n \in 1..MaxN :
         \E d \in Vectors(n, 1..MaxVal), o \in {<<1, 1>>, <<1, n>>, <<n, 1>>},
            x \in Vectors(n, 1..MaxVal),
            bshape \in {<<n>>, <<n, 1>>, <<n, MaxM>>},
            dtype \in {"Float32", "Float64"}, device \in Devices :
              InitSolveCall(
                  WellFormedSolveCall(n, d, o, x, bshape, dtype, device))
    \/ \E ashape \in SolveAShapes, bshape \in SolveBShapes,
          adtype \in Dtypes, bdtype \in Dtypes,
          adevice \in Devices, bdevice \in Devices :
              InitSolveCall(AnyMetadataSolveCall(ashape, adtype, adevice,
                                                 bshape, bdtype, bdevice))

NextSolve ==
    \/ SolveValidate
    \/ SolveCopy
    \/ SolveLookup
    \/ SolveInvoke
    \/ SolveReturn

SpecSolve == InitSolve /\ [][NextSolve]_vars

(***************************************************************************)
(* Properties of Solve                                                     *)
(***************************************************************************)
\* The rows of a 2-D view; a 1-D view of length n reads as n x 1.
Rows(h, T) ==
    IF Len(T.shape) = 2
    THEN [i \in 1..T.shape[1] |-> [j \in 1..T.shape[2] |-> At2(h, T, i, j)]]
    ELSE [i \in 1..T.shape[1] |-> [j \in 1..1 |-> At1(h, T, i)]]

IsIdentity(M, n) ==
    \A i \in 1..n : \A j \in 1..n : M[i][j] = (IF i = j THEN 1 ELSE 0)

\* The preconditions of Solve, one per error kind.
DevicesDiffer == A.device # B.device
DtypesDiffer == A.dtype # B.dtype
SharedDtypeUnsupported ==
    A.dtype = B.dtype /\ A.dtype \notin {"Float32", "Float64"}
ASquare == Len(A.shape) = 2 /\ A.shape[1] = A.shape[2]
ShapeBad == ~ASquare \/ Len(B.shape) \notin {1, 2}
RowsDiffer == ASquare /\ Len(B.shape) >= 1 /\ B.shape[1] # A.shape[1]
SolvePreconditions ==
    ~DevicesDiffer /\ ~DtypesDiffer /\ ~SharedDtypeUnsupported /\ ~ShapeBad
    /\ ~RowsDiffer

ValidationErrors ==
    {"DeviceMismatch", "DtypeMismatch", "UnsupportedDtype", "ShapeError",
     "DimensionMismatch"}

\* The scenario A = [[2,0],[0,3]], B = [[4],[9]].
ScenarioCall ==
    /\ A.shape = <<2, 2>> /\ B.shape = <<2, 1>>
    /\ Flat(heap, A) = <<2, 0, 0, 3>> /\ Flat(heap, B) = <<4, 9>>

\* C1: a completed Solve(A, B) returns X, read in the caller's row-major
\* convention, with A * X = B; for A = Identity(n) X equals B, and for
\* A = [[2,0],[0,3]], B = [[4],[9]] X is [[2],[3]].
SolveSolvesSystem ==
    pc = "done" =>
        /\ ret.shape = B.shape
        /\ MatMul(Rows(heap, A), Rows(heap, ret), SolveN(A), SolveM(B))
               = Rows(heap, B)
        /\ IsIdentity(Rows(heap, A), SolveN(A))
               => Flat(heap, ret) = Flat(heap, B)
        /\ ScenarioCall => Rows(heap, ret) = <<(<<2>>), (<<3>>)>>

SolveScenarioSolved ==
    pc = "done" /\ ScenarioCall /\ Flat(heap, ret) = <<2, 3>>

\* C2: a completed Solve(A, B) returns X with B's shape (1-D for a 1-D B,
\* n x m for an n x m B) and with the dtype and device of A and B.
SolveResultMetadata ==
    pc = "done" =>
        /\ ret.shape = B.shape
        /\ ret.dtype = A.dtype /\ ret.dtype = B.dtype
        /\ ret.device = A.device /\ ret.device = B.device

SolveReturnedColumn ==
    /\ pc = "done" /\ Len(B.shape) = 2 /\ B.shape[1] # B.shape[2]
    /\ ret.shape = B.shape

\* C3: a call that violates exactly one precondition fails with the error of
\* that precondition and returns nothing.
ExactlyOne(v) ==
    /\ v \in {1, 2, 3, 4, 5}
    /\ DevicesDiffer <=> v = 1
    /\ DtypesDiffer <=> v = 2
    /\ SharedDtypeUnsupported <=> v = 3
    /\ ShapeBad <=> v = 4
    /\ RowsDiffer <=> v = 5
SolveMatchingError ==
    pc # "solve" =>
        /\ ExactlyOne(1) => pc = "failed" /\ err = "DeviceMismatch" /\ ret = NoTensor
        /\ ExactlyOne(2) => pc = "failed" /\ err = "DtypeMismatch" /\ ret = NoTensor
        /\ ExactlyOne(3) => pc = "failed" /\ err = "UnsupportedDtype" /\ ret = NoTensor
        /\ ExactlyOne(4) => pc = "failed" /\ err = "ShapeError" /\ ret = NoTensor
        /\ ExactlyOne(5) => pc = "failed" /\ err = "DimensionMismatch" /\ ret = NoTensor

SolveRejectedNonSquare ==
    /\ pc = "failed" /\ err = "ShapeError" /\ A.shape = <<3, 2>>
    /\ ExactlyOne(4)

\* C4: the checks and the registry lookup come before the backend call: a
\* call that failed validation or found no backend has not invoked the
\* backend and returns nothing; the backend runs only on valid operands with
\* a registered device type; a CPU device always has a backend.
SolveChecksBeforeBackend ==
    /\ err \in ValidationErrors \cup {"UnimplementedBackend"} =>
           pc = "failed" /\ backendCalls = 0 /\ ret = NoTensor
    /\ backendCalls > 0 =>
           SolvePreconditions /\ A.device.type \in {"CPU"} \cup
               (IF build_cuda THEN {"CUDA"} ELSE {})
    /\ err = "UnimplementedBackend" =>
           SolvePreconditions /\ A.device.type # "CPU"
    /\ pc = "done" => backendCalls = 1

SolveNoBackendForDevice ==
    /\ pc = "failed" /\ err = "UnimplementedBackend" /\ backendCalls = 0
    /\ A_copy # NoTensor

\* Solve leaves its arguments and their buffers as they are.
SolveFrame ==
    /\ A' = A /\ B' = B
    /\ heap'[A.buf] = heap[A.buf]
    /\ heap'[B.buf] = heap[B.buf]
SolveCopiesFresh ==
    /\ pc \in {"solve_lookup", "solve_invoke", "solve_return", "done"} =>
           /\ A_copy.buf \notin {A.buf, B.buf}
           /\ B_copy.buf \notin {A.buf, B.buf, A_copy.buf}
    /\ pc = "done" =>
           /\ SharesStorage(ret, B_copy)
           /\ ~SharesStorage(ret, A) /\ ~SharesStorage(ret, B)
\* C5: Solve never changes the caller's A and B or their buffers although
\* the backend overwrites both buffers it is given; the backend is given the
\* buffers of the two copies only, and the result is a view of the B copy
\* that shares no storage with A or B.
SolveLeavesCallerData == [][SolveFrame]_vars /\ []SolveCopiesFresh

SolveBackendOverwroteCopies ==
    /\ pc = "done" /\ backendCalls = 1
    /\ heap[A_copy.buf] # Flat(heap, Transpose(A))
    /\ heap[B_copy.buf] # Flat(heap, Transpose(B))
    /\ Len(B.shape) = 2

(***************************************************************************)
(* ComputeTransformationFromRt                                             *)
(***************************************************************************)
\* The assertions of lines 42-46 in their order; the first one violated is
\* fatal.
RtError(r, tt) ==
    IF r.shape # <<3, 3>> THEN "AssertShape"
    ELSE IF r.dtype # "Float32" THEN "AssertDtype"
    ELSE IF tt.shape # <<3>> THEN "AssertShape"
    ELSE IF tt.device # r.device THEN "AssertDevice"
    ELSE IF tt.dtype # "Float32" THEN "AssertDtype"
    ELSE "none"

\* transformation[3][3] = 1 on a contiguous 4 x 4 tensor.
SetScale(h, T) == [h EXCEPT ![T.buf][T.offset + 3 * 4 + 3 + 1] = 1]

\* Lines 41 and 49-57: a zero 4 x 4 matrix on R's device, R into
\* [0:3, 0:3], t as a column into [0:3, 3:4], 1 at [3][3].  (The matrix is
\* allocated before the assertions; a failed assertion releases it.)
RtBuildTransposedRotation(h, r, tt) ==
    LET z == Zeros(h, <<4, 4>>, "Float32", r.device)
        h1 == AssignView(z.heap, Slice2(z.tensor, 0, 3, 0, 3), Transpose(r))
        h2 == AssignView(h1, Slice2(z.tensor, 0, 3, 3, 4), ReshapeColumn(tt))
    IN [heap |-> SetScale(h2, z.tensor), tensor |-> z.tensor]
RtBuild(h, r, tt) ==
    LET z == Zeros(h, <<4, 4>>, "Float32", r.device)
        h1 == AssignView(z.heap, Slice2(z.tensor, 0, 3, 0, 3), r)
        h2 == AssignView(h1, Slice2(z.tensor, 0, 3, 3, 4), ReshapeColumn(tt))
    IN [heap |-> SetScale(h2, z.tensor), tensor |-> z.tensor]

ComputeTransformationFromRt ==
    /\ pc = "rt"
    /\ \/ /\ RtError(R, t) # "none"
          /\ err' = RtError(R, t)
          /\ pc' = "failed"
          /\ UNCHANGED <<heap, ret>>
       \/ /\ RtError(R, t) = "none"
          /\ LET out == RtBuild(heap, R, t)
             IN heap' = out.heap /\ ret' = out.tensor
          /\ pc' = "done"
          /\ err' = err
    /\ UNCHANGED <<build_cuda, A, B, A_copy, B_copy, ipiv, backend, R, t, X,
                   backendCalls>>

(***************************************************************************)
(* ComputeTransformationFromPose                                           *)
(***************************************************************************)
\* std::cos and std::sin of an angle of q quarter turns.
Cos(q) == CASE q % 4 = 0 -> 1 [] q % 4 = 1 -> 0 [] q % 4 = 2 -> -1
            [] q % 4 = 3 -> 0
Sin(q) == CASE q % 4 = 0 -> 0 [] q % 4 = 1 -> 1 [] q % 4 = 2 -> 0
            [] q % 4 = 3 -> -1

\* The assertions of lines 63-64.
PoseError(x) ==
    IF x.shape # <<6>> THEN "AssertShape"
    ELSE IF x.dtype # "Float32" THEN "AssertDtype"
    ELSE "none"

\* X_ptr[k]: the k-th float after the address GetDataPtr() returns, which is
\* the address of the view's first element.
XPtr(h, x, k) == h[x.buf][x.offset + k + 1]

\* Lines 73-89: the values written through transformation_ptr, by raw index.
PoseRotationWrites(h, x) ==
    LET c0 == Cos(XPtr(h, x, 0))  s0 == Sin(XPtr(h, x, 0))
        c1 == Cos(XPtr(h, x, 1))  s1 == Sin(XPtr(h, x, 1))
        c2 == Cos(XPtr(h, x, 2))  s2 == Sin(XPtr(h, x, 2))
    IN [k \in {0, 1, 2, 4, 5, 6, 8, 9, 10} |->
           CASE k = 0 -> c2 * c1
             [] k = 1 -> -1 * s2 * c0 + c2 * s1 * s0
             [] k = 2 -> s2 * s0 + c2 * s1 * c0
             [] k = 4 -> s2 * c1
             [] k = 5 -> c2 * c0 + s2 * s1 * s0
             [] k = 6 -> -1 * c2 * s0 + s2 * s1 * c0
             [] k = 8 -> -1 * s1
             [] k = 9 -> c1 * s0
             [] k = 10 -> c1 * c0]

\* Lines 65-98: a contiguous zero 4 x 4 matrix on X's device, the rotation
\* through the raw pointers, X[3:6] as a column into [0:3, 3:4], 1 at [3][3].
PoseBuild(h, x) ==
    LET z == Zeros(h, <<4, 4>>, "Float32", x.device)
        w == PoseRotationWrites(h, x)
        h1 == [z.heap EXCEPT ![z.tensor.buf] =
                  [q \in DOMAIN @ |->
                      IF (q - 1) \in DOMAIN w THEN w[q - 1] ELSE @[q]]]
        h2 == AssignView(h1, Slice2(z.tensor, 0, 3, 3, 4),
                         ReshapeColumn(Slice1(x, 3, 6)))
    IN [heap |-> SetScale(h2, z.tensor), tensor |-> z.tensor]

\* The raw pointers of X and of the transformation are dereferenced by the
\* host.  For a tensor in device memory that access is undefined: the call
\* either faults or, where the allocation is host-accessible, proceeds.
ComputeTransformationFromPose ==
    /\ pc = "pose"
    /\ \/ /\ PoseError(X) # "none"
          /\ err' = PoseError(X)
          /\ pc' = "failed"
          /\ UNCHANGED <<heap, ret>>
       \/ /\ PoseError(X) = "none"
          /\ X.device.type # "CPU"
          /\ err' = "SIGSEGV"
          /\ pc' = "crashed"
          /\ UNCHANGED <<heap, ret>>
       \/ /\ PoseError(X) = "none"
          /\ LET out == PoseBuild(heap, X)
             IN heap' = out.heap /\ ret' = out.tensor
          /\ pc' = "done"
          /\ err' = err
    /\ UNCHANGED <<build_cuda, A, B, A_copy, B_copy, ipiv, backend, R, t, X,
                   backendCalls>>

(***************************************************************************)
(* Callers of the transform builders                                       *)
(***************************************************************************)
\* A buffer holding the vector v (1-based) with the given element stride;
\* the elements between two entries hold gap.
StridedBuffer(v, stride, gap) ==
    [q \in 1..((Len(v) - 1) * stride + 1) |->
        IF (q - 1) % stride = 0 THEN v[((q - 1) \div stride) + 1] ELSE gap]

\* The identity with the entry (i, j) set to v.
RtMatrix(i, j, v) ==
    [a \in 1..3 |-> [b \in 1..3 |->
        IF a = i /\ b = j THEN v ELSE IF a = b THEN 1 ELSE 0]]

MatTranspose(M, n) == [i \in 1..n |-> [j \in 1..n |-> M[j][i]]]

InitBuilderCall(h, r, tt, x, start) ==
    /\ build_cuda = TRUE
    /\ heap = h
    /\ R = r /\ t = tt /\ X = x
    /\ pc = start
    /\ err = "none"
    /\ A = NoTensor /\ B = NoTensor
    /\ A_copy = NoTensor /\ B_copy = NoTensor /\ ipiv = NoTensor
    /\ backend = "none"
    /\ ret = NoTensor
    /\ backendCalls = 0

\* Calls ComputeTransformationFromRt(R, t).  Well-formed: R is contiguous or
\* the transposed view of a contiguous matrix, t is a contiguous or strided
\* view, both Float32 on one device.  Otherwise: arbitrary metadata over
\* zero-filled buffers.
RtShapes == {<<3, 3>>, <<3>>, <<4, 4>>, <<3, 4>>, <<2, 3>>}
TShapes == {<<3>>, <<4>>, <<3, 1>>, <<>>}
InitRt ==
    \/ \E i \in 1..3, j \in 1..3, v \in 0..MaxVal, viewed \in BOOLEAN,
          tv \in [1..3 -> 0..MaxVal], stride \in 1..MaxStride,
          device \in Devices :
            InitBuilderCall(
                <<RowMajor(IF viewed THEN MatTranspose(RtMatrix(i, j, v), 3)
                           ELSE RtMatrix(i, j, v), 3, 3),
                  StridedBuffer(tv, stride, -1)>>,
                IF viewed
                THEN Transpose(MkTensor(1, 0, <<3, 3>>, <<3, 1>>, "Float32",
                                        device))
                ELSE MkTensor(1, 0, <<3, 3>>, <<3, 1>>, "Float32", device),
                MkTensor(2, 0, <<3>>, <<stride>>, "Float32", device),
                NoTensor, "rt")
    \/ \E rshape \in RtShapes, tshape \in TShapes, rdtype \in Dtypes,
          tdtype \in Dtypes, rdevice \in Devices, tdevice \in Devices :
            InitBuilderCall(
                <<[p \in 1..NumElements(rshape) |-> 0],
                  [p \in 1..NumElements(tshape) |-> 0]>>,
                MkTensor(1, 0, rshape, DefaultStrides(rshape), rdtype,
                         rdevice),
                MkTensor(2, 0, tshape, DefaultStrides(tshape), tdtype,
                         tdevice),
                NoTensor, "rt")

\* Calls ComputeTransformationFromPose(X).  Well-formed: X is a Float32 view
\* of shape {6}, contiguous or strided into a larger buffer whose other
\* elements hold gap.  Otherwise: arbitrary metadata over a zero-filled
\* buffer.
PoseShapes == {<<6>>, <<5>>, <<7>>, <<2, 3>>, <<6, 1>>}
InitPose ==
    \/ \E angles \in [1..3 -> 0..MaxAngle], trans \in [1..3 -> 0..MaxVal],
          stride \in 1..MaxStride, gap \in 0..MaxAngle,
          device \in Devices :
            /\ stride = 1 => gap = 0
            /\ InitBuilderCall(
                   <<StridedBuffer(angles \o trans, stride, gap)>>,
                   NoTensor, NoTensor,
                   MkTensor(1, 0, <<6>>, <<stride>>, "Float32", device),
                   "pose")
    \/ \E xshape \in PoseShapes, xdtype \in Dtypes, device \in Devices :
            InitBuilderCall(
                <<[p \in 1..NumElements(xshape) |-> 0]>>,
                NoTensor, NoTensor,
                MkTensor(1, 0, xshape, DefaultStrides(xshape), xdtype,
                         device),
                "pose")

NextRt == ComputeTransformationFromRt
NextPose == ComputeTransformationFromPose
NextTransform ==
    \/ ComputeTransformationFromRt
    \/ ComputeTransformationFromPose

SpecRt == InitRt /\ [][NextRt]_vars
SpecPose == InitPose /\ [][NextPose]_vars
SpecTransform == (InitRt \/ InitPose) /\ [][NextTransform]_vars

(***************************************************************************)
(* Properties of the transform builders                                    *)
(***************************************************************************)
\* The entries of a 4 x 4 result.
TopLeft(h, T) == [i \in 1..3 |-> [j \in 1..3 |-> At2(h, T, i, j)]]
TopRight(h, T) == [i \in 1..3 |-> At2(h, T, i, 4)]
BottomRow(h, T) == [j \in 1..4 |-> At2(h, T, 4, j)]
Identity3 == [i \in 1..3 |-> [j \in 1..3 |-> IF i = j THEN 1 ELSE 0]]

IsTransform(T) ==
    T.shape = <<4, 4>> /\ T.strides = <<4, 1>> /\ T.dtype = "Float32"

RtPreconditions ==
    /\ R.shape = <<3, 3>> /\ R.dtype = "Float32"
    /\ t.shape = <<3>> /\ t.dtype = "Float32" /\ t.device = R.device

PosePreconditions == X.shape = <<6>> /\ X.dtype = "Float32"

\* ComputeTransformationFromRt leaves R, t and their buffers as they are.
RtFrame ==
    /\ R' = R /\ t' = t
    /\ heap'[R.buf] = heap[R.buf]
    /\ heap'[t.buf] = heap[t.buf]

RtResult ==
    /\ (pc # "rt" /\ RtPreconditions) => pc = "done"
    /\ pc = "done" =>
        /\ IsTransform(ret) /\ ret.device = R.device
        /\ ~SharesStorage(ret, R) /\ ~SharesStorage(ret, t)
        /\ \A i \in 1..3 : \A j \in 1..3 :
               At2(heap, ret, i, j) = At2(heap, R, i, j)
        /\ \A i \in 1..3 : At2(heap, ret, i, 4) = At1(heap, t, i)
        /\ BottomRow(heap, ret) = <<0, 0, 0, 1>>
        /\ (TopLeft(heap, R) = Identity3 /\ Flat(heap, t) = <<0, 0, 0>>)
               => Flat(heap, ret) = <<1, 0, 0, 0,  0, 1, 0, 0,
                                      0, 0, 1, 0,  0, 0, 0, 1>>

\* C6: for a Float32 3 x 3 R and a Float32 length-3 t on one device,
\* ComputeTransformationFromRt returns a 4 x 4 Float32 T on R's device with
\* T[0:3,0:3] = R, T[0:3,3] = t and bottom row [0,0,0,1], and modifies
\* neither R nor t; for R = Identity(3), t = 0 the result is the identity.
RtAssemblesTransform == [][RtFrame]_vars /\ []RtResult

RtBuiltFromViews ==
    /\ pc = "done" /\ RtPreconditions
    /\ At2(heap, R, 1, 2) # At2(heap, R, 2, 1)
    /\ R.strides = <<1, 3>> /\ t.strides = <<2>>
    /\ TopRight(heap, ret) # <<0, 0, 0>>

\* The logical pose [rx, ry, rz, tx, ty, tz] of X.
PoseOf(h, x) == [k \in 1..6 |-> At1(h, x, k)]

\* C7: ComputeTransformationFromPose([0,0,0,tx,ty,tz]) returns a transform
\* with the identity as its top-left block, [tx,ty,tz] as its top-right
\* column and [0,0,0,1] as its bottom row.
PoseTranslationOnly ==
    (pc = "done" /\ \A k \in 1..3 : PoseOf(heap, X)[k] = 0) =>
        /\ IsTransform(ret)
        /\ TopLeft(heap, ret) = Identity3
        /\ TopRight(heap, ret) = [i \in 1..3 |-> PoseOf(heap, X)[i + 3]]
        /\ BottomRow(heap, ret) = <<0, 0, 0, 1>>

\* C8: each builder fails, and returns no transform, exactly when its inputs
\* violate its preconditions (shape, dtype, device); with the preconditions
\* met it does not fail.
BuildersFailOnlyOnPreconditions ==
    /\ (pc \notin {"rt", "pose"} /\ R # NoTensor) =>
           /\ RtPreconditions => pc = "done"
           /\ ~RtPreconditions => pc = "failed" /\ ret = NoTensor
    /\ (pc \notin {"rt", "pose"} /\ X # NoTensor) =>
           /\ PosePreconditions => pc = "done"
           /\ ~PosePreconditions => pc = "failed" /\ ret = NoTensor

\* The same, apart from the host access fault of the pose builder.
BuildersFailOnlyOnPreconditionsUnlessFault ==
    err # "SIGSEGV" => BuildersFailOnlyOnPreconditions

\* The three axis rotations of q quarter turns and their product.
Rx(q) == <<(<<1, 0, 0>>), (<<0, Cos(q), -Sin(q)>>), (<<0, Sin(q), Cos(q)>>)>>
Ry(q) == <<(<<Cos(q), 0, Sin(q)>>), (<<0, 1, 0>>), (<<-Sin(q), 0, Cos(q)>>)>>
Rz(q) == <<(<<Cos(q), -Sin(q), 0>>), (<<Sin(q), Cos(q), 0>>), (<<0, 0, 1>>)>>
Mul3(P, Q) ==
    [i \in 1..3 |-> [j \in 1..3 |->
        P[i][1] * Q[1][j] + P[i][2] * Q[2][j] + P[i][3] * Q[3][j]]]
RotationZYX(rx, ry, rz) == Mul3(Rz(rz), Mul3(Ry(ry), Rx(rx)))
IsOrthonormal(M) == Mul3(M, [i \in 1..3 |-> [j \in 1..3 |-> M[j][i]]]) = Identity3

PoseTransformIs(h, T, pose) ==
    /\ IsTransform(T)
    /\ TopLeft(h, T) = RotationZYX(pose[1], pose[2], pose[3])
    /\ IsOrthonormal(TopLeft(h, T))
    /\ TopRight(h, T) = [i \in 1..3 |-> pose[i + 3]]
    /\ BottomRow(h, T) = <<0, 0, 0, 1>>

\* C9: for every pose X = [rx, ry, rz, tx, ty, tz] the top-left block of the
\* result is Rz(rz) * Ry(ry) * Rx(rx), an orthonormal matrix, the top-right
\* column is [tx, ty, tz] and the bottom row is [0, 0, 0, 1].
PoseRotationIsZYX ==
    pc = "done" /\ X # NoTensor => PoseTransformIs(heap, ret, PoseOf(heap, X))

\* The same for a pose held contiguously.
PoseRotationIsZYXContiguous ==
    (pc = "done" /\ X # NoTensor /\ X.strides = <<1>>)
        => PoseTransformIs(heap, ret, PoseOf(heap, X))

PoseBuiltFromContiguous ==
    /\ pc = "done" /\ X # NoTensor /\ X.strides = <<1>>
    /\ PoseOf(heap, X)[1] = 1 /\ PoseOf(heap, X)[2] = 2
    /\ PoseOf(heap, X)[3] = 3 /\ PoseOf(heap, X)[6] = 1

\* C10: for every Float32 X of shape {6}, a strided view included, the
\* elements the rotation reads through the raw data pointer are the logical
\* elements X[0], X[1], X[2], and the translation is X[3], X[4], X[5].
PoseReadsLogicalElements ==
    (pc = "done" /\ X # NoTensor) =>
        /\ \A k \in 0..2 : XPtr(heap, X, k) = PoseOf(heap, X)[k + 1]
        /\ TopLeft(heap, ret) =
               [i \in 1..3 |-> [j \in 1..3 |->
                   PoseRotationWrites(
                       <<[k \in 1..3 |-> PoseOf(heap, X)[k]]>>,
                       MkTensor(1, 0, <<3>>, <<1>>, "Float32", X.device))
                       [(i - 1) * 4 + (j - 1)]]]
        /\ TopRight(heap, ret) = [i \in 1..3 |-> PoseOf(heap, X)[i + 3]]

====
